---- MODULE Spec2Model ----
(***************************************************************************)
(* A model of youtube_downloader.py: the command line entry point main,    *)
(* the download routine baixar_video, the resolution query                 *)
(* obter_resolucoes and the Tk window YouTubeDownloaderGUI with its worker *)
(* threads and its event loop.                                             *)
(*                                                                         *)
(* Strings are kept as the program writes them, without accents.  A path   *)
(* or file name is the sequence of its pieces: "." and "/" are pieces of   *)
(* their own, every other piece is a run of characters holding neither.    *)
(* The empty sequence stands for Python's None where a path is expected,   *)
(* the empty string for None where a resolution label is expected (both    *)
(* are tested by truth value or "is None" in the source).                  *)
(***************************************************************************)
EXTENDS Naturals, Sequences, FiniteSets

\* ------------------------------------------------------------------ bounds

\* Arguments that follow the URL on the command line.
MaxArgs == 2
\* Worker threads the window starts in one run.
MaxThreads == 2
\* Chunks a stream is delivered in (stream.filesize, counted in chunks).
MaxChunks == 2

\* ------------------------------------------------------- the outside world

NoPath == <<>>
NoLabel == ""

Cwd == <<"cwd">>
\* The folder named on the command line ("my.videos") or picked in the window.
DirArg == <<"my", ".", "videos">>

\* What can stand after the URL on a command line.
TailTokens == {"--audio", "--resolucao", "720p", "my.videos"}

RECURSIVE SeqsUpTo(_, _)
SeqsUpTo(S, n) ==
    IF n = 0 THEN {<<>>}
    ELSE LET shorter == SeqsUpTo(S, n - 1)
         IN  shorter \cup {Append(s, x) : s \in {q \in shorter : Len(q) = n - 1}, x \in S}

\* sys.argv: the program name, then nothing, "--gui", or a URL and its tail.
Argvs ==
    {<<"prog">>, <<"prog", "--gui">>}
        \cup {<<"prog", "u">> \o tail : tail \in SeqsUpTo(TailTokens, MaxArgs)}

\* A stream as pytube describes it: its place in the listing (itag), its
\* resolution label, whether it is progressive, whether it is audio only,
\* and the file name its download writes.
St(n, res, prog, audio, name) ==
    [itag |-> n, resolution |-> res, progressive |-> prog, only_audio |-> audio,
     default_filename |-> name]

\* The listings the video behind the URL may have, in the collaborator's order.
Videos ==
    { << St(1, "720p", TRUE, FALSE, <<"foo", ".", "mp4">>),
         St(2, "360p", TRUE, FALSE, <<"foo", ".", "mp4">>) >>,
      << St(1, "360p", TRUE, FALSE, <<"foo", ".", "mp4">>),
         St(2, "720p", TRUE, FALSE, <<"foo", ".", "mp4">>),
         St(3, NoLabel, FALSE, TRUE, <<"foo", ".", "mp4">>) >>,
      << St(1, "720p", FALSE, FALSE, <<"a", ".", "b", ".", "webm">>),
         St(2, "480p", TRUE, FALSE, <<"a", ".", "b", ".", "mp4">>),
         St(3, "360p", TRUE, FALSE, <<"a", ".", "b", ".", "mp4">>),
         St(4, NoLabel, FALSE, TRUE, <<"a", ".", "b", ".", "webm">>),
         St(5, NoLabel, FALSE, TRUE, <<"a", ".", "b", ".", "mp4">>) >>,
      << St(1, NoLabel, FALSE, TRUE, <<".", "mp4">>) >>,
      << St(1, NoLabel, FALSE, TRUE, <<"foo", ".", "mp3">>),
         St(2, "720p", TRUE, FALSE, <<"foo", ".", "mp4">>) >>,
      << St(1, NoLabel, FALSE, TRUE, <<"foo">>) >> }

NoStream == 0

ResNum(label) ==
    CASE label = "360p" -> 360
      [] label = "480p" -> 480
      [] label = "720p" -> 720
      [] OTHER -> 0

\* The exceptions the except clauses of baixar_video tell apart.
ResolveErrors == {"RegexMatchError", "VideoUnavailable", "Exception"}

\* How the outside answers for this URL: nothing fails, or one of the calls made
\* on the collaborator or the file system raises.  "YouTube" is the resolving
\* of lines 30-35 and 123, "streams" the first reading of yt.streams,
\* "makedirs" line 43, "download" the transfer (after so many chunks), "rename"
\* line 64.
NoFalha == [em |-> "none", exc |-> "", apos |-> 0]
Falhas ==
    {NoFalha}
        \cup {[em |-> "YouTube", exc |-> e, apos |-> 0] : e \in ResolveErrors}
        \cup {[em |-> "streams", exc |-> e, apos |-> 0] : e \in {"VideoUnavailable", "Exception"}}
        \cup {[em |-> em, exc |-> "Exception", apos |-> 0] : em \in {"makedirs", "rename"}}
        \cup {[em |-> "download", exc |-> "Exception", apos |-> k] : k \in 0..(MaxChunks - 1)}

VARIABLES
    argv,           \* sys.argv, from when main reads it and while it parses it
    video,          \* the stream listing behind the URL
    falha,          \* the call that fails for this URL, if any
    mainPc,         \* where the main thread is in main()
    i,              \* the loop index of main(), as Python counts it
    cli,            \* main()'s locals: pasta_destino, resolucao, apenas_audio
    th,             \* per thread: the call of baixar_video / obter_resolucoes it runs
    fs,             \* the files on disk (paths)
    dirs,           \* the folders on disk
    tk_threadsafe,  \* whether this build's Tk takes calls from a worker thread
    apenas_audio_var, resolucao_values, resolucao_combo,
    verificar_btn, download_btn, progresso_bar,
    log_text,       \* the lines of the log area, each with the thread that wrote it
    dialog,         \* the message box on screen, if any
    after_queue     \* callbacks scheduled on the event loop with root.after

vars ==
    <<argv, video, falha, tk_threadsafe, mainPc, i, cli, th, fs, dirs, apenas_audio_var,
      resolucao_values, resolucao_combo,
      verificar_btn, download_btn, progresso_bar, log_text, dialog,
      after_queue>>

guiVars ==
    <<apenas_audio_var, resolucao_values, resolucao_combo,
      verificar_btn, download_btn, progresso_bar, dialog, after_queue>>

cliVars == <<argv, mainPc, i, cli>>

world == <<video, falha, tk_threadsafe>>

\* ------------------------------------------------------------------ threads

MainThread == 0
Workers == 1..MaxThreads
Threads == {MainThread} \cup Workers

Msg(id, arg) == [id |-> id, arg |-> arg]

NoCall ==
    [pc |-> "unborn", fn |-> "none", pasta_destino |-> NoPath, resolucao |-> NoLabel,
     apenas_audio |-> FALSE, callback |-> "none", msgs |-> <<>>, exc |-> "",
     origem |-> "",
     stream |-> NoStream, baixou |-> NoStream,
     restante |-> 0, arquivo_baixado |-> NoPath, novo_arquivo |-> NoPath,
     renames |-> 0, ret |-> <<>>]

\* ------------------------------------------------------- library routines

LastIndexOf(p, c) ==
    LET hits == {k \in 1..Len(p) : p[k] = c}
    IN  IF hits = {} THEN 0 ELSE CHOOSE k \in hits : \A j \in hits : j <= k

\* os.path.splitext: the extension starts at the last dot of the last path
\* component, unless only dots stand before it in that component.
splitext(p) ==
    LET sepIndex == LastIndexOf(p, "/")
        dotIndex == LastIndexOf(p, ".")
    IN  IF dotIndex > sepIndex /\ \E k \in (sepIndex + 1)..(dotIndex - 1) : p[k] # "."
        THEN <<SubSeq(p, 1, dotIndex - 1), SubSeq(p, dotIndex, Len(p))>>
        ELSE <<p, <<>>>>

basename(p) == SubSeq(p, LastIndexOf(p, "/") + 1, Len(p))

\* A faulty novo_arquivo, which forgets os.path.splitext.
novo_arquivo_sem_splitext(arquivo_baixado) == arquivo_baixado \o <<".", "mp3">>

\* base + '.mp3'
novo_arquivo(arquivo_baixado) == splitext(arquivo_baixado)[1] \o <<".", "mp3">>

\* f"{porcentagem:.1f}", in tenths of a percent.
porcentagem(tamanho_total, bytes_remaining) ==
    (2 * 1000 * (tamanho_total - bytes_remaining) + tamanho_total) \div (2 * tamanho_total)

\* pytube's queries on the listing.
first(s) == IF s = <<>> THEN NoStream ELSE s[1].itag

IsProgressive(st) == st.progressive
IsOnlyAudio(st) == st.only_audio

\* A faulty filter(only_audio=True), which keeps every stream.
filter_nothing(streams) == streams

\* A faulty filter(progressive=True, resolution=...), which forgets progressive.
filter_resolution(streams, resolucao) ==
    LET keep(st) == st.resolution = resolucao
    IN  SelectSeq(streams, keep)

filter_only_audio(streams) == SelectSeq(streams, IsOnlyAudio)
filter_progressive(streams) == SelectSeq(streams, IsProgressive)
filter_progressive_resolution(streams, resolucao) ==
    LET keep(st) == st.progressive /\ st.resolution = resolucao
    IN  SelectSeq(streams, keep)

\* get_highest_resolution: the progressive streams ordered by resolution, the last.
get_highest_resolution(streams) ==
    LET prog == filter_progressive(streams)
        best == {k \in 1..Len(prog) :
                    \A j \in 1..Len(prog) :
                        \/ ResNum(prog[j].resolution) < ResNum(prog[k].resolution)
                        \/ ResNum(prog[j].resolution) = ResNum(prog[k].resolution) /\ j <= k}
    IN  IF prog = <<>> THEN NoStream ELSE prog[CHOOSE k \in best : TRUE].itag

RECURSIVE Resolutions(_)
Resolutions(s) ==
    IF s = <<>> THEN <<>> ELSE <<Head(s).resolution>> \o Resolutions(Tail(s))

StreamOf(n) == video[CHOOSE k \in 1..Len(video) : video[k].itag = n]

\* ------------------------------------------------------------------ add_log

\* The outcomes of a Tk call: on the event loop's thread it succeeds; made from
\* another thread it is outside what Tk guarantees, and succeeds or raises as
\* the build has it.
TkOutcomes(t) == IF t = MainThread \/ tk_threadsafe THEN {TRUE} ELSE {FALSE}

\* add_log, run by thread t: one more line in the log area.
add_log(mensagem, t) == log_text' = Append(log_text, [mensagem |-> mensagem, thread |-> t])

\* "if callback: callback(m)" inside the try block of thread t's call, whose
\* locals are cur, the call going on at pc next.  A callback that raises lands
\* in the except clauses.
CallbackFrom(t, cur, m, ok, next) ==
    IF cur.callback = "none"
    THEN /\ ok
         /\ th' = [th EXCEPT ![t] = [cur EXCEPT !.pc = next]]
         /\ UNCHANGED log_text
    ELSE IF ok
    THEN /\ th' = [th EXCEPT ![t] = [cur EXCEPT !.pc = next, !.msgs = Append(@, m)]]
         /\ add_log(m, t)
    ELSE /\ th' = [th EXCEPT ![t] = [cur EXCEPT !.pc = "except", !.exc = "Exception",
                                               !.origem = "callback"]]
         /\ UNCHANGED log_text

Callback(t, m, ok, next) == CallbackFrom(t, th[t], m, ok, next)

CallbackOutcomes(t) == IF th[t].callback = "none" THEN {TRUE} ELSE TkOutcomes(t)

\* An exception e is raised inside the try block by the call named origem.
Raise(t, e, origem) ==
    th' = [th EXCEPT ![t].pc = "except", ![t].exc = e, ![t].origem = origem]

At(t, fn, pc) == th[t].fn = fn /\ th[t].pc = pc

\* ------------------------------------------------------------- baixar_video

NewCall(fn, pasta, resolucao, apenas_audio, callback, pc) ==
    [NoCall EXCEPT !.pc = pc, !.fn = fn, !.pasta_destino = pasta,
                   !.resolucao = resolucao, !.apenas_audio = apenas_audio,
                   !.callback = callback]

\* lines 28-29
bv_conectando(t) ==
    /\ At(t, "baixar_video", "L28")
    /\ \E ok \in CallbackOutcomes(t) :
           Callback(t, Msg("Conectando ao YouTube...", <<>>), ok, "L30")
    /\ UNCHANGED <<world, fs, dirs, guiVars, cliVars>>

\* lines 30-35: YouTube(url) and the title, length and views of the video
bv_YouTube(t) ==
    /\ At(t, "baixar_video", "L30")
    /\ IF falha.em = "YouTube"
       THEN Raise(t, falha.exc, falha.em)
       ELSE th' = [th EXCEPT ![t].pc = "L37"]
    /\ UNCHANGED <<world, fs, dirs, log_text, guiVars, cliVars>>

\* lines 37-38
bv_info(t) ==
    /\ At(t, "baixar_video", "L37")
    /\ \E ok \in CallbackOutcomes(t) :
           Callback(t, Msg("Titulo: Duracao: Visualizacoes:", <<>>), ok, "L41")
    /\ UNCHANGED <<world, fs, dirs, guiVars, cliVars>>

\* lines 41-46
bv_makedirs(t) ==
    /\ At(t, "baixar_video", "L41")
    /\ LET pasta == IF th[t].pasta_destino = NoPath THEN Cwd ELSE th[t].pasta_destino
       IN  IF falha.em = "makedirs" /\ pasta \notin dirs
           THEN Raise(t, falha.exc, falha.em) /\ UNCHANGED dirs
           ELSE /\ dirs' = dirs \cup {pasta}
                /\ th' = [th EXCEPT ![t].pasta_destino = pasta,
                                    ![t].pc = IF th[t].apenas_audio THEN "L47" ELSE "L73"]
    /\ UNCHANGED <<world, fs, log_text, guiVars, cliVars>>

\* lines 47-48
bv_aviso_audio(t) ==
    /\ At(t, "baixar_video", "L47")
    /\ \E ok \in CallbackOutcomes(t) :
           Callback(t, Msg("Baixando apenas audio...", <<>>), ok, "L49")
    /\ UNCHANGED <<world, fs, dirs, guiVars, cliVars>>

\* line 49
bv_audio_first(t) ==
    /\ At(t, "baixar_video", "L49")
    /\ IF falha.em = "streams"
       THEN Raise(t, falha.exc, falha.em)
       ELSE th' = [th EXCEPT ![t].stream = first(filter_only_audio(video)), ![t].pc = "L59"]
    /\ UNCHANGED <<world, fs, dirs, log_text, guiVars, cliVars>>

\* lines 58-59 and 100-101: the download is invoked on the chosen stream
bv_download(t) ==
    /\ At(t, "baixar_video", "L59") \/ At(t, "baixar_video", "L101")
    /\ IF th[t].stream = NoStream
       THEN Raise(t, "Exception", "NoneType") /\ UNCHANGED fs
       ELSE LET arquivo == th[t].pasta_destino \o <<"/">>
                               \o StreamOf(th[t].stream).default_filename
            IN  /\ th' = [th EXCEPT ![t].baixou = th[t].stream,
                                    ![t].arquivo_baixado = arquivo,
                                    ![t].restante = MaxChunks,
                                    ![t].pc = "chunk"]
                /\ fs' = fs \cup {arquivo}
    /\ UNCHANGED <<world, dirs, log_text, guiVars, cliVars>>

\* lines 51-56 and 93-98: a chunk arrives and on_progress reports it, or the
\* transfer fails; the download returns once nothing remains
bv_chunk(t) ==
    /\ At(t, "baixar_video", "chunk")
    /\ IF th[t].restante = 0
       THEN /\ th' = [th EXCEPT ![t].pc = IF th[t].apenas_audio THEN "L62" ELSE "L103"]
            /\ UNCHANGED log_text
       ELSE IF falha.em = "download" /\ falha.apos = MaxChunks - th[t].restante
       THEN Raise(t, falha.exc, falha.em) /\ UNCHANGED log_text
       ELSE \E ok \in CallbackOutcomes(t) :
                 CallbackFrom(t, [th[t] EXCEPT !.restante = @ - 1],
                              Msg("Baixado: %", <<porcentagem(MaxChunks, th[t].restante - 1)>>),
                              ok, "chunk")
    /\ UNCHANGED <<world, fs, dirs, guiVars, cliVars>>

\* lines 62-64: the downloaded file is renamed to its .mp3 name
bv_rename(t) ==
    /\ At(t, "baixar_video", "L62")
    /\ LET novo == novo_arquivo(th[t].arquivo_baixado)
       IN  IF falha.em = "rename"
           THEN Raise(t, falha.exc, falha.em) /\ UNCHANGED fs
           ELSE /\ fs' = (fs \ {th[t].arquivo_baixado}) \cup {novo}
                /\ th' = [th EXCEPT ![t].renames = @ + 1, ![t].novo_arquivo = novo,
                                    ![t].pc = "L66"]
    /\ UNCHANGED <<world, dirs, log_text, guiVars, cliVars>>

\* lines 66-67
bv_audio_salvo(t) ==
    /\ At(t, "baixar_video", "L66")
    /\ \E ok \in CallbackOutcomes(t) :
           Callback(t, Msg("Audio baixado e salvo como", basename(th[t].novo_arquivo)),
                    ok, "L68")
    /\ UNCHANGED <<world, fs, dirs, guiVars, cliVars>>

\* line 68
bv_return_audio(t) ==
    /\ At(t, "baixar_video", "L68")
    /\ th' = [th EXCEPT ![t].pc = "returned", ![t].ret = th[t].novo_arquivo]
    /\ UNCHANGED <<world, fs, dirs, log_text, guiVars, cliVars>>

\* lines 72-74
bv_resolucoes(t) ==
    /\ At(t, "baixar_video", "L73")
    /\ IF falha.em = "streams"
       THEN Raise(t, falha.exc, falha.em)
       ELSE th' = [th EXCEPT ![t].pc = "L76"]
    /\ UNCHANGED <<world, fs, dirs, log_text, guiVars, cliVars>>

\* lines 76-77
bv_resolucoes_msg(t) ==
    /\ At(t, "baixar_video", "L76")
    /\ \E ok \in CallbackOutcomes(t) :
           Callback(t, Msg("Resolucoes disponiveis:", Resolutions(filter_progressive(video))),
                    ok, "L79")
    /\ UNCHANGED <<world, fs, dirs, guiVars, cliVars>>

\* lines 79-82 and 86-88
bv_select(t) ==
    /\ At(t, "baixar_video", "L79")
    /\ IF th[t].resolucao # NoLabel
       THEN LET stream == first(filter_progressive_resolution(video, th[t].resolucao))
            IN  th' = [th EXCEPT ![t].stream = stream,
                                 ![t].pc = IF stream = NoStream THEN "L83" ELSE "L90"]
       ELSE th' = [th EXCEPT ![t].stream = get_highest_resolution(video), ![t].pc = "L90"]
    /\ UNCHANGED <<world, fs, dirs, log_text, guiVars, cliVars>>

\* lines 83-84
bv_aviso_fallback(t) ==
    /\ At(t, "baixar_video", "L83")
    /\ \E ok \in CallbackOutcomes(t) :
           Callback(t, Msg("Resolucao nao disponivel. Usando a melhor resolucao disponivel.",
                           <<th[t].resolucao>>),
                    ok, "L85")
    /\ UNCHANGED <<world, fs, dirs, guiVars, cliVars>>

\* line 85
bv_fallback(t) ==
    /\ At(t, "baixar_video", "L85")
    /\ th' = [th EXCEPT ![t].stream = get_highest_resolution(video), ![t].pc = "L90"]
    /\ UNCHANGED <<world, fs, dirs, log_text, guiVars, cliVars>>

\* lines 90-91: stream.resolution is read only when there is a callback
bv_aviso_video(t) ==
    /\ At(t, "baixar_video", "L90")
    /\ IF th[t].callback # "none" /\ th[t].stream = NoStream
       THEN Raise(t, "Exception", "NoneType") /\ UNCHANGED log_text
       ELSE \E ok \in CallbackOutcomes(t) :
                Callback(t, Msg("Baixando video com resolucao",
                                IF th[t].stream = NoStream THEN <<>>
                                ELSE <<StreamOf(th[t].stream).resolution>>),
                         ok, "L101")
    /\ UNCHANGED <<world, fs, dirs, guiVars, cliVars>>

\* lines 103-104
bv_video_salvo(t) ==
    /\ At(t, "baixar_video", "L103")
    /\ \E ok \in CallbackOutcomes(t) :
           Callback(t, Msg("Video baixado e salvo como", basename(th[t].arquivo_baixado)),
                    ok, "L105")
    /\ UNCHANGED <<world, fs, dirs, guiVars, cliVars>>

\* line 105
bv_return_video(t) ==
    /\ At(t, "baixar_video", "L105")
    /\ th' = [th EXCEPT ![t].pc = "returned", ![t].ret = th[t].arquivo_baixado]
    /\ UNCHANGED <<world, fs, dirs, log_text, guiVars, cliVars>>

\* Faulty except clauses, which report every exception as unexpected.
mensagem_generica(e) == Msg("Erro inesperado:", <<>>)

\* lines 107-115: which message each except clause reports
mensagem_de_erro(e) ==
    CASE e = "RegexMatchError" ->
             Msg("Erro: URL invalida. Verifique se a URL esta correta.", <<>>)
      [] e = "VideoUnavailable" ->
             Msg("Erro: Este video nao esta disponivel ou e privado.", <<>>)
      [] OTHER -> Msg("Erro inesperado:", <<>>)

\* lines 107-115: the except clause reports and the function ends without a
\* value; a callback that raises here is caught by nothing
bv_except(t) ==
    /\ At(t, "baixar_video", "except")
    /\ IF th[t].callback = "none"
       THEN /\ th' = [th EXCEPT ![t].pc = "returned", ![t].ret = NoPath]
            /\ UNCHANGED log_text
       ELSE \E ok \in TkOutcomes(t) :
              IF ok
              THEN /\ th' = [th EXCEPT ![t].pc = "returned", ![t].ret = NoPath,
                                       ![t].msgs = Append(@, mensagem_de_erro(th[t].exc))]
                   /\ add_log(mensagem_de_erro(th[t].exc), t)
              ELSE /\ th' = [th EXCEPT ![t].pc = "raised"]
                   /\ UNCHANGED log_text
    /\ UNCHANGED <<world, fs, dirs, guiVars, cliVars>>

baixar_video(t) ==
    \/ bv_conectando(t) \/ bv_YouTube(t) \/ bv_info(t) \/ bv_makedirs(t)
    \/ bv_aviso_audio(t) \/ bv_audio_first(t) \/ bv_download(t) \/ bv_chunk(t)
    \/ bv_rename(t) \/ bv_audio_salvo(t) \/ bv_return_audio(t)
    \/ bv_resolucoes(t) \/ bv_resolucoes_msg(t) \/ bv_select(t)
    \/ bv_aviso_fallback(t) \/ bv_fallback(t) \/ bv_aviso_video(t)
    \/ bv_video_salvo(t) \/ bv_return_video(t) \/ bv_except(t)

\* --------------------------------------------------------------------- main

NoCli == [pasta_destino |-> NoPath, resolucao |-> NoLabel, apenas_audio |-> FALSE]

\* sys.argv[k], Python's index
Arg(k) == argv[k + 1]

startswith_dashes(a) == a \in {"--audio", "--resolucao", "--gui"}

\* the pieces of an argument taken as a path
PastaOf(a) == IF a = "my.videos" THEN DirArg ELSE <<a>>

\* lines 370-375 and 387-389: the program is started with some arguments
main_dispatch ==
    /\ mainPc = "main"
    /\ \E sys_argv \in Argvs :
         IF Len(sys_argv) > 1 /\ sys_argv[2] # "--gui"
         THEN argv' = sys_argv /\ mainPc' = "loop" /\ i' = 2 /\ cli' = NoCli
         ELSE mainPc' = "mainloop" /\ UNCHANGED <<argv, i, cli>>
    /\ UNCHANGED <<world, th, fs, dirs, log_text, guiVars>>

\* lines 378-384: one turn of the loop over the optional arguments
main_loop ==
    /\ mainPc = "loop"
    /\ i < Len(argv)
    /\ cli' = IF Arg(i) = "--audio"
              THEN [cli EXCEPT !.apenas_audio = TRUE]
              ELSE IF Arg(i) = "--resolucao" /\ i + 1 < Len(argv)
              THEN [cli EXCEPT !.resolucao = Arg(i + 1)]
              ELSE IF ~startswith_dashes(Arg(i)) /\ cli.pasta_destino = NoPath
              THEN [cli EXCEPT !.pasta_destino = PastaOf(Arg(i))]
              ELSE cli
    /\ i' = i + 1
    /\ UNCHANGED <<argv, mainPc, world, th, fs, dirs, log_text, guiVars>>

\* line 386: baixar_video(url, pasta_destino, resolucao, apenas_audio), no callback
main_call ==
    /\ mainPc = "loop"
    /\ i >= Len(argv)
    /\ mainPc' = "call"
    /\ th' = [th EXCEPT ![MainThread] =
                 NewCall("baixar_video", cli.pasta_destino, cli.resolucao,
                         cli.apenas_audio, "none", "L28")]
    /\ UNCHANGED <<argv, i, cli, world, fs, dirs, log_text, guiVars>>

\* the call of line 386 is over: main returns, or the exception ends the program
main_return ==
    /\ mainPc = "call"
    /\ th[MainThread].pc \in {"returned", "raised"}
    /\ mainPc' = IF th[MainThread].pc = "returned" THEN "exit" ELSE "traceback"
    /\ UNCHANGED <<argv, i, cli, world, th, fs, dirs, log_text, guiVars>>

\* --------------------------------------------------------- obter_resolucoes

\* lines 121-122
or_obtendo(t) ==
    /\ At(t, "obter_resolucoes", "L121")
    /\ \E ok \in CallbackOutcomes(t) :
           Callback(t, Msg("Obtendo informacoes do video...", <<>>), ok, "L123")
    /\ UNCHANGED <<world, fs, dirs, guiVars, cliVars>>

\* lines 123-127
or_YouTube(t) ==
    /\ At(t, "obter_resolucoes", "L123")
    /\ IF falha.em \in {"YouTube", "streams"}
       THEN Raise(t, falha.exc, falha.em)
       ELSE th' = [th EXCEPT ![t].ret = Resolutions(filter_progressive(video)),
                             ![t].pc = "L129"]
    /\ UNCHANGED <<world, fs, dirs, log_text, guiVars, cliVars>>

\* lines 129-130
or_titulo(t) ==
    /\ At(t, "obter_resolucoes", "L129")
    /\ \E ok \in CallbackOutcomes(t) :
           Callback(t, Msg("Titulo do video:", <<>>), ok, "L132")
    /\ UNCHANGED <<world, fs, dirs, guiVars, cliVars>>

\* line 132
or_return(t) ==
    /\ At(t, "obter_resolucoes", "L132")
    /\ th' = [th EXCEPT ![t].pc = "returned"]
    /\ UNCHANGED <<world, fs, dirs, log_text, guiVars, cliVars>>

\* lines 133-136: any exception is reported and [] returned; a callback that
\* raises here is caught by nothing
or_except(t) ==
    /\ At(t, "obter_resolucoes", "except")
    /\ IF th[t].callback = "none"
       THEN /\ th' = [th EXCEPT ![t].pc = "returned", ![t].ret = <<>>]
            /\ UNCHANGED log_text
       ELSE \E ok \in TkOutcomes(t) :
              IF ok
              THEN /\ th' = [th EXCEPT ![t].pc = "returned", ![t].ret = <<>>,
                                       ![t].msgs = Append(@, Msg("Erro ao obter resolucoes:", <<>>))]
                   /\ add_log(Msg("Erro ao obter resolucoes:", <<>>), t)
              ELSE /\ th' = [th EXCEPT ![t].pc = "raised"]
                   /\ UNCHANGED log_text
    /\ UNCHANGED <<world, fs, dirs, guiVars, cliVars>>

obter_resolucoes(t) ==
    or_obtendo(t) \/ or_YouTube(t) \/ or_titulo(t) \/ or_return(t) \/ or_except(t)

\* ------------------------------------------------------ YouTubeDownloaderGUI

MelhorDisponivel == "Melhor disponivel"

Elems(q) == {q[k] : k \in 1..Len(q)}

\* line 192
resolucoes == <<MelhorDisponivel, "720p", "480p", "360p">>

\* What the URL entry may hold when a button is clicked, and str.strip of it.
UrlTexts == {"", " ", " u "}
strip(text) == IF text = " u " THEN "u" ELSE ""

\* What the folder entry may hold when "Baixar Video" is clicked: the initial
\* os.getcwd() (or that folder picked again with browse_folder, lines 262-266),
\* nothing, or the name typed in of a folder that does not exist.
DestinoTexts == {Cwd, NoPath, <<"nope">>}

\* What the read-only combobox may show when "Baixar Video" is clicked: a value
\* picked from its list as it is (lines 195-201, 307) or as it was before.
ResolucaoTexts == Elems(resolucoes) \cup Elems(resolucao_values)

isdir(p) == p \in dirs

NoDialog == [tipo |-> "none", titulo |-> "", texto |-> ""]

FreeWorkers == {t \in Workers : th[t].pc = "unborn"}
NextWorker == CHOOSE t \in FreeWorkers : \A u \in FreeWorkers : t <= u

showerror(texto) == dialog' = [tipo |-> "error", titulo |-> "Erro", texto |-> texto]
showinfo(texto) == dialog' = [tipo |-> "info", titulo |-> "Sucesso", texto |-> texto]

\* The window takes the user's input once main has entered mainloop, and not
\* while a message box holds the input.
Interactive == mainPc = "mainloop" /\ dialog = NoDialog

\* A faulty disabling of the buttons, which leaves "Baixar Video" as it is.
desabilitar_so_verificar == verificar_btn' = "disabled" /\ download_btn' = download_btn

\* lines 276-277 and 328-329
desabilitar_botoes == verificar_btn' = "disabled" /\ download_btn' = "disabled"

\* lines 301-302 and 353-354
habilitar_botoes == verificar_btn' = "normal" /\ download_btn' = "normal"

\* the user closes the message box
fechar_dialog ==
    /\ mainPc = "mainloop"
    /\ dialog # NoDialog
    /\ dialog' = NoDialog
    /\ UNCHANGED <<cliVars, world, th, fs, dirs, log_text, apenas_audio_var,
                   resolucao_values, resolucao_combo,
                   verificar_btn, download_btn, progresso_bar, after_queue>>

\* lines 255-260: the user ticks or unticks "Apenas Audio (MP3)"
toggle_audio_mode ==
    /\ Interactive
    /\ apenas_audio_var' = ~apenas_audio_var
    /\ resolucao_combo' = IF apenas_audio_var' THEN "disabled" ELSE "readonly"
    /\ UNCHANGED <<cliVars, world, th, fs, dirs, log_text, resolucao_values,
                   verificar_btn, download_btn, progresso_bar, dialog, after_queue>>

\* lines 268-289: a click on "Verificar", which a disabled button ignores
verificar_video ==
    /\ Interactive
    /\ verificar_btn = "normal"
    /\ FreeWorkers # {}
    /\ \E url_entry \in UrlTexts :
         IF strip(url_entry) = ""
         THEN /\ showerror("Por favor, insira uma URL valida")
              /\ UNCHANGED <<verificar_btn, download_btn, progresso_bar, log_text, th>>
         ELSE /\ desabilitar_botoes
              /\ progresso_bar' = "running"
              /\ add_log(Msg("Verificando video...", <<>>), MainThread)
              /\ th' = [th EXCEPT ![NextWorker] =
                           NewCall("obter_resolucoes", NoPath, NoLabel, FALSE, "add_log", "L121")]
              /\ UNCHANGED dialog
    /\ UNCHANGED <<cliVars, world, fs, dirs, apenas_audio_var,
                   resolucao_values, resolucao_combo, after_queue>>

\* a thread that has ended
Ended(pc) == [NoCall EXCEPT !.pc = pc]

\* lines 291-296: obter_resolucoes is over and the worker schedules the update
verificar_thread(t) ==
    /\ At(t, "obter_resolucoes", "returned")
    /\ \E ok \in TkOutcomes(t) :
         IF ok
         THEN /\ after_queue' = Append(after_queue,
                     [fn |-> "_atualizar_apos_verificacao", resolucoes |-> th[t].ret,
                      retorno |-> NoPath])
              /\ th' = [th EXCEPT ![t] = Ended("finished")]
         ELSE /\ th' = [th EXCEPT ![t].pc = "died"]
              /\ UNCHANGED after_queue
    /\ UNCHANGED <<cliVars, world, fs, dirs, log_text, apenas_audio_var,
                   resolucao_values, resolucao_combo,
                   verificar_btn, download_btn, progresso_bar, dialog>>

\* lines 298-308, run by the event loop
atualizar_apos_verificacao ==
    /\ mainPc = "mainloop"
    /\ after_queue # <<>>
    /\ Head(after_queue).fn = "_atualizar_apos_verificacao"
    /\ after_queue' = Tail(after_queue)
    /\ progresso_bar' = "stopped"
    /\ habilitar_botoes
    /\ IF Head(after_queue).resolucoes # <<>>
       THEN /\ resolucao_values' = <<MelhorDisponivel>> \o Head(after_queue).resolucoes
            /\ add_log(Msg("Video verificado com sucesso!", <<>>), MainThread)
       ELSE UNCHANGED <<resolucao_values, log_text>>
    /\ UNCHANGED <<cliVars, world, th, fs, dirs, apenas_audio_var,
                   resolucao_combo, dialog>>

\* lines 310-341: a click on "Baixar Video", which a disabled button ignores
iniciar_download ==
    /\ Interactive
    /\ download_btn = "normal"
    /\ FreeWorkers # {}
    /\ \E url_entry \in UrlTexts, destino_var \in DestinoTexts,
          resolucao_var \in ResolucaoTexts :
         IF strip(url_entry) = ""
         THEN /\ showerror("Por favor, insira uma URL valida")
              /\ UNCHANGED <<verificar_btn, download_btn, progresso_bar, log_text, th>>
         ELSE IF destino_var = NoPath \/ ~isdir(destino_var)
         THEN /\ showerror("Pasta de destino invalida")
              /\ UNCHANGED <<verificar_btn, download_btn, progresso_bar, log_text, th>>
         ELSE /\ desabilitar_botoes
              /\ progresso_bar' = "running"
              /\ add_log(Msg("Iniciando download...", <<>>), MainThread)
              /\ th' = [th EXCEPT ![NextWorker] =
                           NewCall("baixar_video", destino_var,
                                   IF resolucao_var # MelhorDisponivel /\ ~apenas_audio_var
                                   THEN resolucao_var ELSE NoLabel,
                                   apenas_audio_var, "add_log", "L28")]
              /\ UNCHANGED dialog
    /\ UNCHANGED <<cliVars, world, fs, dirs, apenas_audio_var,
                   resolucao_values, resolucao_combo, after_queue>>

\* lines 343-348: baixar_video is over, its value is dropped, and the worker
\* schedules the completion (retorno keeps the dropped value beside the entry)
download_thread(t) ==
    /\ t \in Workers
    /\ At(t, "baixar_video", "returned")
    /\ \E ok \in TkOutcomes(t) :
         IF ok
         THEN /\ after_queue' = Append(after_queue,
                     [fn |-> "_finalizar_download", resolucoes |-> <<>>,
                      retorno |-> th[t].ret])
              /\ th' = [th EXCEPT ![t] = Ended("finished")]
         ELSE /\ th' = [th EXCEPT ![t].pc = "died"]
              /\ UNCHANGED after_queue
    /\ UNCHANGED <<cliVars, world, fs, dirs, log_text, apenas_audio_var,
                   resolucao_values, resolucao_combo,
                   verificar_btn, download_btn, progresso_bar, dialog>>

\* lines 350-356, run by the event loop
finalizar_download ==
    /\ mainPc = "mainloop"
    /\ after_queue # <<>>
    /\ Head(after_queue).fn = "_finalizar_download"
    /\ after_queue' = Tail(after_queue)
    /\ progresso_bar' = "stopped"
    /\ habilitar_botoes
    /\ add_log(Msg("Download concluido!", <<>>), MainThread)
    /\ showinfo("Download concluido com sucesso!")
    /\ UNCHANGED <<cliVars, world, th, fs, dirs, apenas_audio_var,
                   resolucao_values, resolucao_combo>>

\* -------------------------------------------------------------- the program

Init ==
    /\ argv = <<>>
    /\ video \in Videos
    /\ falha \in Falhas
    /\ tk_threadsafe \in BOOLEAN
    /\ mainPc = "main"
    /\ i = 0
    /\ cli = NoCli
    /\ th = [t \in Threads |-> NoCall]
    /\ fs = {}
    /\ dirs = {Cwd, DirArg}
    /\ apenas_audio_var = FALSE
    /\ resolucao_values = resolucoes
    /\ resolucao_combo = "readonly"
    /\ verificar_btn = "normal"
    /\ download_btn = "normal"
    /\ progresso_bar = "stopped"
    /\ log_text = <<>>
    /\ dialog = NoDialog
    /\ after_queue = <<>>

Worker(t) ==
    \/ baixar_video(t)
    \/ obter_resolucoes(t)
    \/ verificar_thread(t)
    \/ download_thread(t)

EventLoop == atualizar_apos_verificacao \/ finalizar_download

User ==
    \/ toggle_audio_mode \/ fechar_dialog
    \/ verificar_video \/ iniciar_download

Main == main_dispatch \/ main_loop \/ main_call \/ main_return

Next ==
    \/ Main
    \/ User
    \/ EventLoop
    \/ \E t \in Threads : Worker(t)

Spec == Init /\ [][Next]_vars

\* Threads get to run and the event loop serves its queue; the user owes nothing.
FairSpec ==
    /\ Spec
    /\ WF_vars(\E t \in Threads : Worker(t))
    /\ WF_vars(EventLoop)

\* --------------------------------------------------------------- properties

\* thread t runs, or ran, a call of baixar_video
IsCall(t) == th[t].fn = "baixar_video"

\* the call of thread t is over: it returned, it raised, or it returned and the
\* thread ended on the scheduling of the completion
Over(t) == th[t].pc \in {"returned", "raised", "died"}

HasMsg(t, id) == \E k \in 1..Len(th[t].msgs) : th[t].msgs[k].id = id

ErroUrlInvalida == "Erro: URL invalida. Verifique se a URL esta correta."
ErroIndisponivel == "Erro: Este video nao esta disponivel ou e privado."
ErroInesperado == "Erro inesperado:"
ErrorIds == {ErroUrlInvalida, ErroIndisponivel, ErroInesperado}

\* an error message reached the reporter of thread t's call
Reported(t) == \E id \in ErrorIds : HasMsg(t, id)

\* the calls whose failure is a failure of the resolver, the folder creation,
\* the download or the rename
Collaborators == {"YouTube", "streams", "makedirs", "download", "rename"}

\* C1: every call of baixar_video, from the window's worker or from main, in
\* which the resolver, the folder creation, the download or the rename fails,
\* does not raise, returns no path, and has delivered an error message to the
\* reporter by the time it is over.
C1_FailureIsReported ==
    \A t \in Threads :
        IsCall(t) /\ Over(t) /\ th[t].origem \in Collaborators
            => /\ th[t].pc # "raised"
               /\ th[t].ret = NoPath
               /\ Reported(t)

Busy == verificar_btn = "disabled" /\ download_btn = "disabled" /\ progresso_bar = "running"
Idle == verificar_btn = "normal" /\ download_btn = "normal" /\ progresso_bar = "stopped"

\* C2: every Busy state of the window (both buttons disabled, the progress bar
\* running) is eventually followed by an Idle state (both buttons enabled, the
\* progress bar stopped), however the background operation ends.
C2_BusyLeadsToIdle == Busy ~> Idle

\* the worker t is running its operation
InFlight(t) == th[t].pc \notin {"unborn", "finished", "raised", "died"}

\* the operations started whose completion handler has not run yet
Pending == Cardinality({t \in Workers : InFlight(t)}) + Len(after_queue)

BothEnabled == verificar_btn = "normal" /\ download_btn = "normal"
BothDisabled == verificar_btn = "disabled" /\ download_btn = "disabled"

C3_Step ==
    /\ \A t \in Workers :
           th[t].pc = "unborn" /\ th'[t].pc # "unborn" => BothEnabled /\ BothDisabled'
    /\ Pending' <= 1
    /\ Pending' = 1 => BothDisabled'

\* C3: at most one background operation is in flight at any time; a worker is
\* started only while both buttons are enabled, and both are disabled from the
\* step that starts it until its completion handler has run on the event loop.
C3_OneOperationInFlight == [][C3_Step]_vars

\* a second operation runs with the buttons disabled, the first one completed
C3_Witness ==
    \E t, u \in Workers :
        /\ InFlight(t) /\ th[u].pc = "finished" /\ after_queue = <<>>
        /\ BothDisabled

\* C4: every line of the log area was appended by the event loop's thread.
C4_LogWrittenOnUiThread ==
    \A k \in 1..Len(log_text) : log_text[k].thread = MainThread

\* the resolving of lines 30-35 failed with VideoUnavailable and the call is over
Unavailable(t) ==
    IsCall(t) /\ Over(t) /\ th[t].origem = "YouTube" /\ th[t].exc = "VideoUnavailable"

\* C5, as stated: when the resolving fails with VideoUnavailable the call does
\* not raise, returns no path, and its reporter has received exactly one
\* message, the one for an unavailable video.
C5_ExactlyOneMessage ==
    \A t \in Threads :
        Unavailable(t)
            => /\ th[t].pc # "raised"
               /\ th[t].ret = NoPath
               /\ th[t].callback # "none"
                      => Len(th[t].msgs) = 1 /\ th[t].msgs[1].id = ErroIndisponivel

\* C5, amended: when the resolving fails with VideoUnavailable the call does not
\* raise, returns no path, and its reporter, if it has one, has received exactly
\* two messages: "Conectando ao YouTube..." and then the one for an unavailable
\* video, its only error message.
C5_ConnectingThenUnavailable ==
    \A t \in Threads :
        Unavailable(t)
            => /\ th[t].pc # "raised"
               /\ th[t].ret = NoPath
               /\ IF th[t].callback = "none"
                  THEN th[t].msgs = <<>>
                  ELSE /\ Len(th[t].msgs) = 2
                       /\ th[t].msgs[1].id = "Conectando ao YouTube..."
                       /\ th[t].msgs[2].id = ErroIndisponivel

\* a worker's call ended on an unavailable video, its reporter told twice
C5_Witness ==
    \E t \in Workers :
        Unavailable(t) /\ th[t].pc = "returned" /\ Len(th[t].msgs) = 2

\* The argument lists C6 speaks of: a mix of the folder, --audio and
\* --resolucao followed by its label.
RECURSIVE WellFormed(_)
WellFormed(args) ==
    IF args = <<>> THEN TRUE
    ELSE IF Head(args) = "--resolucao"
    THEN Len(args) >= 2 /\ args[2] = "720p" /\ WellFormed(Tail(Tail(args)))
    ELSE Head(args) \in {"--audio", "my.videos"} /\ WellFormed(Tail(args))

\* The first argument that is neither a flag nor the label --resolucao consumes.
RECURSIVE FolderOf(_)
FolderOf(args) ==
    IF args = <<>> THEN NoPath
    ELSE IF Head(args) = "--resolucao" /\ Len(args) >= 2 THEN FolderOf(Tail(Tail(args)))
    ELSE IF startswith_dashes(Head(args)) THEN FolderOf(Tail(args))
    ELSE PastaOf(Head(args))

\* C6: once main has parsed a well-formed argument list, the destination folder
\* is the first argument after the URL that is neither a flag nor the label
\* consumed by --resolucao, and is unset when there is none.
C6_FolderIsFirstFreeArgument ==
    mainPc \in {"call", "exit", "traceback"} /\ WellFormed(SubSeq(argv, 3, Len(argv)))
        => cli.pasta_destino = FolderOf(SubSeq(argv, 3, Len(argv)))

FallbackNotice == "Resolucao nao disponivel. Usando a melhor resolucao disponivel."

\* the places in the listing of the progressive streams labelled r
Matches(r) == {k \in 1..Len(video) : video[k].progressive /\ video[k].resolution = r}

NoAudioOnly == \A k \in 1..Len(video) : ~video[k].only_audio

\* the first audio-only stream of the listing, in the collaborator's order
FirstAudioOnly ==
    IF NoAudioOnly THEN NoStream
    ELSE LET audios == {k \in 1..Len(video) : video[k].only_audio}
         IN  video[CHOOSE k \in audios : \A j \in audios : k <= j].itag

HasExt(p) ==
    /\ Len(p) >= 2
    /\ p[Len(p) - 1] = "."
    /\ p[Len(p)] \notin {".", "/"}
    /\ \E j \in (LastIndexOf(p, "/") + 1)..(Len(p) - 2) : p[j] # "."

\* p with its extension, if it has one, replaced by .mp3
WithMp3(p) ==
    IF HasExt(p) THEN SubSeq(p, 1, Len(p) - 2) \o <<".", "mp3">> ELSE p \o <<".", "mp3">>

\* the audio-only call of thread t returned a path
AudioDone(t) ==
    IsCall(t) /\ th[t].apenas_audio /\ th[t].pc \in {"returned", "died"} /\ th[t].ret # NoPath

\* the rename of thread t's audio-only call failed and the call is over
RenameFailed(t) == IsCall(t) /\ Over(t) /\ th[t].origem = "rename"

\* what C9 says of a rename that fails
RenameFailureLeavesFile(t) ==
    /\ th[t].pc # "raised"
    /\ th[t].ret = NoPath
    /\ th[t].arquivo_baixado \in fs
    /\ th[t].callback # "none" => Reported(t)

\* C9, as stated: a successful audio-only call returns the downloaded name with
\* its extension replaced by .mp3, a file is at that path, and none is left
\* under the downloaded name; a rename that fails is reported, no path is
\* returned and the downloaded file is still there.
C9_RenamedNotCopied ==
    \A t \in Threads :
        /\ AudioDone(t)
               => /\ th[t].ret = WithMp3(th[t].arquivo_baixado)
                  /\ th[t].ret \in fs
                  /\ th[t].arquivo_baixado \notin fs
        /\ RenameFailed(t) => RenameFailureLeavesFile(t)

\* C9, amended: as stated, except that no file is left under the downloaded
\* name only when that name did not already end in .mp3 (the rename is then onto
\* the same name).
C9_RenamedUnlessAlreadyMp3 ==
    \A t \in Threads :
        /\ AudioDone(t)
               => /\ th[t].ret = WithMp3(th[t].arquivo_baixado)
                  /\ th[t].ret \in fs
                  /\ th[t].ret # th[t].arquivo_baixado => th[t].arquivo_baixado \notin fs
        /\ RenameFailed(t) => RenameFailureLeavesFile(t)

\* a worker's audio-only call renamed a file with an extension and returned
C9_Witness ==
    \E t \in Workers :
        /\ AudioDone(t) /\ th[t].pc = "returned"
        /\ HasExt(th[t].arquivo_baixado)
        /\ th[t].ret # th[t].arquivo_baixado
        /\ th[t].renames = 1

\* C10: the completion handler of a download logs "Download concluido!" and
\* shows the success dialog only when baixar_video returned a path.
C10_SuccessOnlyAfterPath ==
    [][finalizar_download => Head(after_queue).retorno # NoPath]_vars

====
